---- MODULE Spec2Model ----
(***************************************************************************)
(* Account and authorization core: registration, login, MFA verification,  *)
(* token issue / verification, credential mutation, gateway session        *)
(* limits, notes and value normalization (objectify).                      *)
(*                                                                         *)
(* Modelling conventions                                                   *)
(*  - Python None and the empty string are both falsy in every test the    *)
(*    handlers make (`if email:`, `if not code:`), so an absent string is  *)
(*    "" and an absent discriminator is the empty sequence <<>>.           *)
(*  - The store is the keyed-record store of the handlers: get(predicate)  *)
(*    yields a matching record or NotFound.                                *)
(*  - hasher.hash is salted: every call draws a salt never drawn before.   *)
(*  - The HMAC of itsdangerous is an ideal MAC: the signature determines   *)
(*    the key, the signed value and the timestamp.                         *)
(***************************************************************************)
EXTENDS Integers, Sequences, FiniteSets, TLC

\* ------------------------------------------------------------- bounds
\* writes to the User table (creates and updates) a run may make
MaxWrites == 3
MaxTime == 1
\* discriminators are rolled in 1..MaxDiscriminator (9999 in the source)
MaxDiscriminator == 2
\* is_too_used rejects above this many users of a username (9000 in the source)
TooUsedLimit == 1

\* a GatewaySessionLimit row lives this many clock ticks (43200 s in the source)
SessionLimitTtl == 2
\* Member rows a user may have
MaxMemberships == 2000
\* integers above this are re-encoded by objectify (2147483647 in the source, the
\* largest integer TLC represents, so the threshold is scaled down)
SafeIntMax == 9
\* nesting depth of the values objectify is applied to
ObjectifyDepth == 2

\* ------------------------------------------------------------- program constants
RollAttempts == 10
\* column defaults of GatewaySessionLimit
SessionLimitTotal == 1000
SessionLimitRemaining == 1000
SessionLimitMaxConcurrency == 16
\* guild memberships per shard in get_gateway
GuildsPerShard == 1000

Emails == {"a@x", "b@x"}
Usernames == {"ann", "bob"}
Passwords == {"pw1", "pw2"}
\* the password chosen at registration, and the values an edit sets a field to
RegisterPasswords == {"pw1"}
EditEmails == {"b@x"}
EditUsernames == {"bob"}
EditPasswords == {"pw2"}

\* ------------------------------------------------------------- encoders
RECURSIVE Digits(_)
\* str(user_id).encode(): the ASCII bytes of the decimal representation
Digits(n) == IF n < 10 THEN <<48 + n>> ELSE Append(Digits(n \div 10), 48 + (n % 10))

Pad == 64

RECURSIVE B64Encode(_)
\* base64.b64encode over a byte sequence; sextets are 0..63 and Pad is '='
B64Encode(bytes) ==
    IF Len(bytes) = 0 THEN <<>>
    ELSE IF Len(bytes) = 1 THEN
        <<bytes[1] \div 4, (bytes[1] % 4) * 16, Pad, Pad>>
    ELSE IF Len(bytes) = 2 THEN
        <<bytes[1] \div 4, (bytes[1] % 4) * 16 + (bytes[2] \div 16),
          (bytes[2] % 16) * 4, Pad>>
    ELSE
        <<bytes[1] \div 4, (bytes[1] % 4) * 16 + (bytes[2] \div 16),
          (bytes[2] % 16) * 4 + (bytes[3] \div 64), bytes[3] % 64>>
        \o B64Encode(SubSeq(bytes, 4, Len(bytes)))

\* binascii.Error and ValueError of the decoding step
DecodeError == <<-1>>

RECURSIVE B64Decode(_)
\* base64.b64decode: groups of four sextets, padding only in the last group
B64Decode(seg) ==
    IF Len(seg) = 0 THEN <<>>
    ELSE IF Len(seg) < 4 THEN DecodeError
    ELSE IF seg[1] = Pad \/ seg[2] = Pad THEN DecodeError
    ELSE IF seg[3] = Pad THEN
        IF Len(seg) = 4 /\ seg[4] = Pad
        THEN <<seg[1] * 4 + (seg[2] \div 16)>>
        ELSE DecodeError
    ELSE IF seg[4] = Pad THEN
        IF Len(seg) = 4
        THEN <<seg[1] * 4 + (seg[2] \div 16), (seg[2] % 16) * 16 + (seg[3] \div 4)>>
        ELSE DecodeError
    ELSE
        LET rest == B64Decode(SubSeq(seg, 5, Len(seg)))
        IN  IF rest = DecodeError THEN DecodeError
            ELSE <<seg[1] * 4 + (seg[2] \div 16), (seg[2] % 16) * 16 + (seg[3] \div 4),
                   (seg[3] % 4) * 64 + seg[4]>> \o rest

RECURSIVE ParseInt(_)
\* int(bytes): the value of a non-empty run of decimal digits, -1 for ValueError
ParseInt(bytes) ==
    IF Len(bytes) = 0 THEN -1
    ELSE LET last == bytes[Len(bytes)]
         IN  IF last < 48 \/ last > 57 THEN -1
             ELSE IF Len(bytes) = 1 THEN last - 48
             ELSE LET front == ParseInt(SubSeq(bytes, 1, Len(bytes) - 1))
                  IN  IF front = -1 THEN -1 ELSE front * 10 + (last - 48)

\* the id segment of a token: decoded user id, or -1 when undecodable
DecodeId(seg) ==
    LET bytes == B64Decode(seg)
    IN  IF bytes = DecodeError THEN -1 ELSE ParseInt(bytes)

\* '%04d' % n
Format04(n) == <<(n \div 1000) % 10, (n \div 100) % 10, (n \div 10) % 10, n % 10>>

\* ------------------------------------------------------------- state
VARIABLES
    users,       \* User table: id -> record
    settings,    \* Settings table: user_id -> record
    recoveries,  \* RecoveryCode table: user_id -> set of codes
    tokens,      \* bearer tokens handed to clients so far
    events,      \* events handed to the event sink, in order
    resp,        \* the response of the last request
    now,         \* wall clock
    nextSalt,    \* salts drawn so far by hasher.hash, plus one
    writes,      \* writes made to the User table so far
    revoked,     \* history: tokens that were outstanding for a user when that user's password changed
    reg,         \* position and locals of each in-flight create_user call
    accepted,    \* history: the logins that were accepted on a recovery code
    limits,      \* GatewaySessionLimit table: user_id -> row
    members,     \* Member table: user_id -> number of rows of that user
    gateway,     \* the body of the last get_gateway response
    notes,       \* Note table: a set of rows
    data,        \* the argument objectify is called with
    result       \* what objectify returned

\* the tables and values that only the gateway, note and objectify operations touch
gatewayVars == <<limits, members, gateway>>
noteVars == <<notes>>
objectifyVars == <<data, result>>

vars == <<users, settings, recoveries, tokens, events, resp, now, nextSalt, writes, revoked, reg,
          accepted, gatewayVars, noteVars, objectifyVars>>

Procs == {1, 2}

NoHash == [pw |-> "", salt |-> 0]
NoSig == [key |-> NoHash, seg |-> <<>>, ts |-> -1]
NoToken == [seg |-> <<>>, ts |-> -1, sig |-> NoSig]
NoDisc == <<>>

FieldNames == {"id", "email", "password", "username", "discriminator", "bot", "verified"}

\* a User instance built from no columns: every column at its default
DefaultUser ==
    [id |-> 0, email |-> "", password |-> NoHash, username |-> "",
     discriminator |-> NoDisc, bot |-> FALSE, verified |-> "false"]

\* forger.forge: an id no earlier user has
Forge(us) == LET k == Cardinality(DOMAIN us) + 1 IN 6 * k * k * k + 1

\* ------------------------------------------------------------- password hasher
\* a hasher that draws no salt
hasher_hash_unsalted(pw, salt) == [pw |-> pw, salt |-> 0]

hasher_hash(pw, salt) == [pw |-> pw, salt |-> salt]

hasher_verify(hash, pw) == hash.pw = pw

\* ------------------------------------------------------------- token codec
\* the signature itsdangerous appends: an ideal MAC over value and timestamp
Sign(key, seg, ts) == [key |-> key, seg |-> seg, ts |-> ts]

\* an unsign that accepts a signature only in the clock tick it was made in
UnsignWithMaxAge(key, token) == token.sig = Sign(key, token.seg, token.ts) /\ token.ts = now

\* TimestampSigner(key).unsign(token) succeeds (no max_age is given)
Unsign(key, token) == token.sig = Sign(key, token.seg, token.ts)

\* a codec that signs the decimal id instead of its base64 form
create_token_signs_raw_id(user_id, user_password, ts) ==
    [seg |-> B64Encode(Digits(user_id)), ts |-> ts,
     sig |-> Sign(user_password, Digits(user_id), ts)]

create_token(user_id, user_password, ts) ==
    LET seg == B64Encode(Digits(user_id))
    IN  [seg |-> seg, ts |-> ts, sig |-> Sign(user_password, seg, ts)]

\* the columns of rec named in keep, every other column at its default
Columns(rec, keep) == [f \in FieldNames |-> IF f \in keep THEN rec[f] ELSE DefaultUser[f]]

\* the record verify_token returns once the signature verified
Projected(us, uid, fields, rm_fields) ==
    IF fields = {"id"} THEN [Columns(us[uid], {"password"}) EXCEPT !.id = uid]
    ELSE IF fields # {} /\ rm_fields # {} THEN Columns(us[uid], fields \ rm_fields)
    ELSE IF fields # {} THEN Columns(us[uid], fields)
    ELSE IF rm_fields # {} THEN Columns(us[uid], FieldNames \ rm_fields)
    ELSE us[uid]

\* a verification that trusts the id segment without checking the signature
verify_token_trusts_id(us, token, fields, rm_fields) ==
    IF token = NoToken \/ DecodeId(token.seg) \notin DOMAIN us THEN
        [status |-> 401, msg |-> "Authorization is invalid", user |-> DefaultUser]
    ELSE [status |-> 200, msg |-> "",
          user |-> Projected(us, DecodeId(token.seg), fields, rm_fields)]

verify_token(us, token, fields, rm_fields) ==
    IF token = NoToken THEN
        [status |-> 401, msg |-> "Authorization is invalid", user |-> DefaultUser]
    ELSE LET uid == DecodeId(token.seg)
         IN  IF uid = -1 THEN
                 [status |-> 401, msg |-> "Failed to get container volume for Authorization",
                  user |-> DefaultUser]
             ELSE IF uid \notin DOMAIN us THEN
                 [status |-> 401, msg |-> "Object for Authorization not found",
                  user |-> DefaultUser]
             ELSE IF ~Unsign(us[uid].password, token) THEN
                 [status |-> 401, msg |-> "Signature on Authorization is Invalid",
                  user |-> DefaultUser]
             ELSE [status |-> 200, msg |-> "", user |-> Projected(us, uid, fields, rm_fields)]

authorize(us, token, fields, rm_fields) == verify_token(us, token, fields, rm_fields)

\* ------------------------------------------------------------- what a client can present
\* id segments a client can write into a token: ids of users, an id of no user,
\* a base64 string with bad padding, and base64 of a non-numeric string
Segments(us) ==
    {B64Encode(Digits(u)) : u \in DOMAIN us \cup {Forge(us)}}
        \cup {<<13, 48, Pad>>, B64Encode(<<97>>)}

\* no header, a token as issued, or an issued token with its id segment replaced
Presentable(us, toks) ==
    {NoToken} \cup toks \cup {[t EXCEPT !.seg = s] : t \in toks, s \in Segments(us)}

\* ------------------------------------------------------------- store queries
\* User.objects(User.email == email).get() finds a record
EmailUsed(us, email) == \E u \in DOMAIN us : us[u].email = email

\* User.objects(User.username == username).count()
UsedCount(us, username) == Cardinality({u \in DOMAIN us : us[u].username = username})

\* is_too_used raises
is_too_used(us, username) == UsedCount(us, username) > TooUsedLimit

\* User.objects(User.username == username, User.discriminator == d).get() raises NotFound
is_available(us, username, d) ==
    ~\E u \in DOMAIN us : us[u].username = username /\ us[u].discriminator = d

\* roll_discriminator: '%04d' % random.randint(1, MaxDiscriminator)
roll_discriminator == {Format04(k) : k \in 1..MaxDiscriminator}

\* an allocator that returns its first roll without probing
get_available_discriminator_unprobed(us, username, n) == roll_discriminator

RECURSIVE get_available_discriminator(_, _, _)
\* what the loop of get_available_discriminator can return with n attempts left:
\* a roll that is free is returned, a roll that is taken uses up the attempt
get_available_discriminator(us, username, n) ==
    IF n = 0 THEN {NoDisc}
    ELSE {d \in roll_discriminator : is_available(us, username, d)}
            \cup (IF \E d \in roll_discriminator : ~is_available(us, username, d)
                  THEN get_available_discriminator(us, username, n - 1)
                  ELSE {})

\* get_recoveries
get_recoveries(user_id) == IF user_id \in DOMAIN recoveries THEN recoveries[user_id] ELSE {}

\* ------------------------------------------------------------- MFA
Codes == <<"111111", "222222", "333333">>
Secrets == {"S0", "S1"}
Range(f) == {f[i] : i \in DOMAIN f}

\* pyotp.TOTP(secret).now(): the code of the current time window
Totp(secret, t) == Codes[(((IF secret = "S1" THEN 1 ELSE 0) + t) % Len(Codes)) + 1]

\* an MFA check that asks every account for a code
verify_mfa_of_every_account(user_id, code) ==
    IF user_id \notin DOMAIN settings THEN "no_settings"
    ELSE IF code = "" THEN "required"
    ELSE IF settings[user_id].mfa_enabled
            /\ (code \notin get_recoveries(user_id)
                \/ code # Totp(settings[user_id].mfa_code, now)) THEN "invalid"
    ELSE "ok"

\* verify_mfa: "ok" when it returns, otherwise the error it raises
verify_mfa(user_id, code) ==
    IF user_id \notin DOMAIN settings THEN "no_settings"
    ELSE IF settings[user_id].mfa_enabled THEN
        IF code = "" THEN "required"
        ELSE IF code \notin get_recoveries(user_id)
                \/ code # Totp(settings[user_id].mfa_code, now) THEN "invalid"
        ELSE "ok"
    ELSE "ok"

\* ------------------------------------------------------------- responses
NoResp == [op |-> "", status |-> 0, msg |-> "", uid |-> 0]

Error(op, status, msg) == [op |-> op, status |-> status, msg |-> msg, uid |-> 0]

Idle == [pc |-> "idle", email |-> "", username |-> "", password |-> "",
         attempt |-> 0, disc |-> NoDisc, uid |-> 0]

NoGateway == [shards |-> 0, total |-> 0, remaining |-> 0, max_concurrency |-> 0]

\* a value objectify can be given: an int, a str (its bytes), a list (its items) or a
\* dict (its keys in insertion order and, in items, their values)
NoValue == [t |-> "none", n |-> 0, s |-> <<>>, keys |-> <<>>, items |-> <<>>]

\* empty tables, no request served yet
EmptyStore ==
    /\ users = <<>>
    /\ settings = <<>>
    /\ recoveries = <<>>
    /\ tokens = {}
    /\ events = <<>>
    /\ resp = NoResp
    /\ now = 0
    /\ nextSalt = 1
    /\ writes = 0
    /\ revoked = {}
    /\ reg = [p \in Procs |-> Idle]
    /\ accepted = {}
    /\ limits = <<>>
    /\ members = <<>>
    /\ gateway = NoGateway
    /\ notes = {}

Init ==
    /\ EmptyStore
    /\ data = NoValue
    /\ result = NoValue

\* ------------------------------------------------------------- registration
\* User.create followed by Settings.create
NewUser(uid, email, username, hash, disc) ==
    [id |-> uid, email |-> email, password |-> hash, username |-> username,
     discriminator |-> disc, bot |-> FALSE, verified |-> "false"]

NewSettings == [mfa_enabled |-> FALSE, mfa_code |-> ""]

\* an insert that is refused when the (username, discriminator) pair is held
UserCreateIfFree(us, rec) ==
    IF is_available(us, rec.username, rec.discriminator) THEN us @@ (rec.id :> rec) ELSE us

\* User.create: an insert, whatever the table holds
UserCreate(us, rec) == us @@ (rec.id :> rec)

\* POST /register, the whole handler in one step
register(email, username, password) ==
    /\ IF EmailUsed(users, email) THEN
           /\ resp' = Error("register", 400, "This email is already used.")
           /\ UNCHANGED <<users, settings, tokens, nextSalt, writes>>
       ELSE IF is_too_used(users, username) THEN
           /\ resp' = Error("register", 400, "Too many people are using this username.")
           /\ UNCHANGED <<users, settings, tokens, nextSalt, writes>>
       ELSE \E d \in get_available_discriminator(users, username, RollAttempts) :
           IF d = NoDisc THEN
               /\ resp' = Error("register", 400, "Too many people are using this username.")
               /\ UNCHANGED <<users, settings, tokens, nextSalt, writes>>
           ELSE
               LET uid == Forge(users)
                   hash == hasher_hash(password, nextSalt)
                   tok == create_token(uid, hash, now)
               IN  /\ writes < MaxWrites
                   /\ writes' = writes + 1
                   /\ users' = UserCreate(users, NewUser(uid, email, username, hash, d))
                   /\ settings' = settings @@ (uid :> NewSettings)
                   /\ nextSalt' = nextSalt + 1
                   /\ tokens' = tokens \cup {tok}
                   /\ resp' = [op |-> "register", status |-> 201, msg |-> "", uid |-> uid]
    /\ UNCHANGED <<recoveries, events, now, revoked, reg, accepted, gatewayVars, noteVars, objectifyVars>>

\* ------------------------------------------------------------- login
\* a login that verifies the MFA code before the password
login_check_mfa_first(u, password, code) ==
    LET mfa == verify_mfa(u, code)
    IN  IF mfa = "required" THEN
            Error("login", 403, "mfa_code is a required field for users with mfa.")
        ELSE IF mfa = "invalid" THEN Error("login", 403, "mfa code is invalid.")
        ELSE IF ~hasher_verify(users[u].password, password) THEN
            Error("login", 400, "Invalid email or password")
        ELSE [op |-> "login", status |-> 200, msg |-> "", uid |-> u]

\* the checks login makes once the user of the email is found: password, then MFA
login_check(u, password, code) ==
    IF ~hasher_verify(users[u].password, password) THEN
        Error("login", 400, "Invalid email or password")
    ELSE LET mfa == verify_mfa(u, code)
         IN  IF mfa = "no_settings" THEN Error("login", 500, "Internal Server Error")
             ELSE IF mfa = "required" THEN
                 Error("login", 403, "mfa_code is a required field for users with mfa.")
             ELSE IF mfa = "invalid" THEN Error("login", 403, "mfa code is invalid.")
             ELSE [op |-> "login", status |-> 200, msg |-> "", uid |-> u]

\* the responses login can give
login_responses(email, password, code) ==
    IF ~EmailUsed(users, email) THEN {Error("login", 400, "Invalid email or password")}
    ELSE {login_check(u, password, code) : u \in {v \in DOMAIN users : users[v].email = email}}

\* POST /login
login(email, password, code) ==
    /\ \E r \in login_responses(email, password, code) :
           /\ resp' = r
           /\ tokens' = IF r.status = 200
                        THEN tokens \cup {create_token(r.uid, users[r.uid].password, now)}
                        ELSE tokens
           /\ accepted' = IF r.status = 200 /\ settings[r.uid].mfa_enabled
                                /\ code \in get_recoveries(r.uid)
                          THEN accepted \cup {[email |-> email, password |-> password,
                                               code |-> code, uid |-> r.uid]}
                          ELSE accepted
    /\ UNCHANGED <<users, settings, recoveries, events, now, nextSalt, writes, revoked, reg,
                   gatewayVars, noteVars, objectifyVars>>

\* ------------------------------------------------------------- reading the own account
\* GET /users/@me
get_me(tok) ==
    LET auth == authorize(users, tok, {}, {"password"})
        me == auth.user
    IN  /\ IF auth.status # 200 THEN
               /\ resp' = Error("get_me", auth.status, auth.msg)
               /\ UNCHANGED users
           ELSE
               /\ users' = IF me.verified = "unset"
                           THEN [users EXCEPT ![me.id].verified = "false"]
                           ELSE users
               /\ resp' = [op |-> "get_me", status |-> 200, msg |-> "", uid |-> me.id]
        /\ UNCHANGED <<settings, recoveries, tokens, events, now, nextSalt, writes, revoked, reg,
                       accepted, gatewayVars, noteVars, objectifyVars>>

\* ------------------------------------------------------------- credential mutation
\* both is_available calls of edit_me return
EditAvailable(us, user, discriminator, username) ==
    /\ discriminator # NoDisc => is_available(us, user.username, discriminator)
    /\ username # "" =>
           is_available(us, username,
                    IF discriminator # NoDisc THEN discriminator ELSE user.discriminator)

\* user.update(**query): the supplied fields over the stored record
Merged(rec, email, discriminator, username, hash) ==
    [rec EXCEPT !.email = IF email # "" THEN email ELSE @,
                !.discriminator = IF discriminator # NoDisc THEN discriminator ELSE @,
                !.username = IF username # "" THEN username ELSE @,
                !.password = IF hash # NoHash THEN hash ELSE @]

DisconnectEvent(uid) ==
    [name |-> "USER_INTERNAL_DISCONNECT", type |-> "password-change", user_id |-> uid]

\* an edit that notifies before it validates
EditEventsBeforeChecks(evs, uid, available, password) ==
    IF password # "" THEN Append(evs, DisconnectEvent(uid)) ELSE evs

\* an edit that notifies whenever it succeeds
EditEventsOnEveryEdit(evs, uid, available, password) ==
    IF available THEN Append(evs, DisconnectEvent(uid)) ELSE evs

\* the event sink after edit_me; available tells whether the is_available calls returned
EditEvents(evs, uid, available, password) ==
    IF available /\ password # "" THEN Append(evs, DisconnectEvent(uid)) ELSE evs

\* PATCH /users/@me
edit_me(tok, email, discriminator, username, password) ==
    LET auth == authorize(users, tok, {}, {})
        user == auth.user
        available == EditAvailable(users, user, discriminator, username)
        hash == IF password # "" THEN hasher_hash(password, nextSalt) ELSE NoHash
    IN  /\ IF auth.status # 200 THEN
               /\ resp' = Error("edit_me", auth.status, auth.msg)
               /\ UNCHANGED <<users, events, nextSalt, writes, revoked>>
           ELSE
               /\ events' = EditEvents(events, user.id, available, password)
               /\ IF ~available THEN
                      /\ resp' = Error("edit_me", 400, "Discriminator is already taken")
                      /\ UNCHANGED <<users, nextSalt, writes, revoked>>
                  ELSE
                      /\ writes < MaxWrites
                      /\ writes' = writes + 1
                      /\ users' = [users EXCEPT ![user.id] =
                                       Merged(@, email, discriminator, username, hash)]
                      /\ nextSalt' = IF password # "" THEN nextSalt + 1 ELSE nextSalt
                      /\ revoked' = IF password # ""
                                    THEN revoked \cup {t \in tokens : DecodeId(t.seg) = user.id}
                                    ELSE revoked
                      /\ resp' = [op |-> "edit_me", status |-> 200, msg |-> "", uid |-> user.id]
        /\ UNCHANGED <<settings, recoveries, tokens, now, reg, accepted, gatewayVars, noteVars, objectifyVars>>

\* ------------------------------------------------------------- environment
\* time passes
Tick ==
    /\ now < MaxTime
    /\ now' = now + 1
    /\ UNCHANGED <<users, settings, recoveries, tokens, events, resp, nextSalt, writes, revoked, reg,
                   accepted, gatewayVars, noteVars, objectifyVars>>

\* MFA enrolment writes the Settings row and the RecoveryCode row of a user
EnrolMfa(u, secret, code) ==
    /\ u \in DOMAIN settings
    /\ ~settings[u].mfa_enabled
    /\ settings' = [settings EXCEPT ![u] = [mfa_enabled |-> TRUE, mfa_code |-> secret]]
    /\ recoveries' = (u :> {code}) @@ recoveries
    /\ UNCHANGED <<users, tokens, events, resp, now, nextSalt, writes, revoked, reg,
                   accepted, gatewayVars, noteVars, objectifyVars>>

\* ------------------------------------------------------------- registration, store call by store call
\* create_user looks the email up
RegStart(p, email, username, password) ==
    /\ reg[p].pc = "idle"
    /\ IF EmailUsed(users, email) THEN
           /\ resp' = Error("register", 400, "This email is already used.")
           /\ UNCHANGED reg
       ELSE
           /\ reg' = [reg EXCEPT ![p] = [Idle EXCEPT !.pc = "count", !.email = email,
                                              !.username = username, !.password = password]]
           /\ UNCHANGED resp
    /\ UNCHANGED <<users, settings, recoveries, tokens, events, now, nextSalt, writes, revoked,
                   accepted, gatewayVars, noteVars, objectifyVars>>

\* is_too_used counts the users of the username
RegCount(p) ==
    /\ reg[p].pc = "count"
    /\ IF is_too_used(users, reg[p].username) THEN
           /\ resp' = Error("register", 400, "Too many people are using this username.")
           /\ reg' = [reg EXCEPT ![p] = Idle]
       ELSE
           /\ reg' = [reg EXCEPT ![p].pc = "roll"]
           /\ UNCHANGED resp
    /\ UNCHANGED <<users, settings, recoveries, tokens, events, now, nextSalt, writes, revoked,
                   accepted, gatewayVars, noteVars, objectifyVars>>

\* a loop that gives up only after an eleventh collision
RegRollElevenTimes(p) ==
    /\ reg[p].pc = "roll"
    /\ IF reg[p].attempt = RollAttempts + 1 THEN
           /\ resp' = Error("register", 400, "Too many people are using this username.")
           /\ reg' = [reg EXCEPT ![p] = Idle]
       ELSE \E d \in roll_discriminator :
           /\ reg' = IF is_available(users, reg[p].username, d)
                     THEN [reg EXCEPT ![p].pc = "create", ![p].disc = d]
                     ELSE [reg EXCEPT ![p].attempt = @ + 1]
           /\ UNCHANGED resp
    /\ UNCHANGED <<users, settings, recoveries, tokens, events, now, nextSalt, writes, revoked,
                   accepted, gatewayVars, noteVars, objectifyVars>>

\* one pass of the loop of get_available_discriminator: a roll and its existence probe
RegRoll(p) ==
    /\ reg[p].pc = "roll"
    /\ IF reg[p].attempt = RollAttempts THEN
           /\ resp' = Error("register", 400, "Too many people are using this username.")
           /\ reg' = [reg EXCEPT ![p] = Idle]
       ELSE \E d \in roll_discriminator :
           /\ reg' = IF is_available(users, reg[p].username, d)
                     THEN [reg EXCEPT ![p].pc = "create", ![p].disc = d]
                     ELSE [reg EXCEPT ![p].attempt = @ + 1]
           /\ UNCHANGED resp
    /\ UNCHANGED <<users, settings, recoveries, tokens, events, now, nextSalt, writes, revoked,
                   accepted, gatewayVars, noteVars, objectifyVars>>

\* hasher.hash and User.create
RegCreate(p) ==
    LET uid == Forge(users)
        hash == hasher_hash(reg[p].password, nextSalt)
    IN  /\ reg[p].pc = "create"
        /\ writes < MaxWrites
        /\ writes' = writes + 1
        /\ users' = UserCreate(users, NewUser(uid, reg[p].email, reg[p].username, hash,
                                              reg[p].disc))
        /\ nextSalt' = nextSalt + 1
        /\ reg' = [reg EXCEPT ![p].pc = "settings", ![p].uid = uid]
        /\ UNCHANGED <<settings, recoveries, tokens, events, resp, now, revoked,
                       accepted, gatewayVars, noteVars, objectifyVars>>

\* Settings.create, then register returns the token
RegSettings(p) ==
    LET uid == reg[p].uid
    IN  /\ reg[p].pc = "settings"
        /\ settings' = settings @@ (uid :> NewSettings)
        /\ tokens' = tokens \cup {create_token(uid, users[uid].password, now)}
        /\ resp' = [op |-> "register", status |-> 201, msg |-> "", uid |-> uid]
        /\ reg' = [reg EXCEPT ![p] = Idle]
        /\ UNCHANGED <<users, recoveries, events, now, nextSalt, writes, revoked,
                       accepted, gatewayVars, noteVars, objectifyVars>>

\* ------------------------------------------------------------- gateway information
\* GatewaySessionLimit.create(user_id=...) at time t: every counter at its default
NewSessionLimit(t) ==
    [total |-> SessionLimitTotal, remaining |-> SessionLimitRemaining,
     max_concurrency |-> SessionLimitMaxConcurrency, written |-> t]

\* the result of a get that raises NotFound
NoLimit == [total |-> 0, remaining |-> 0, max_concurrency |-> 0, written |-> -1]

\* a read that still finds rows whose time to live is over
SessionLimitGetOfAnyAge(ls, user_id, t) ==
    IF user_id \in DOMAIN ls THEN ls[user_id] ELSE NoLimit

\* GatewaySessionLimit.objects(user_id == ...).get() at time t: the table's
\* default_time_to_live removes a row SessionLimitTtl after it was written
SessionLimitGet(ls, user_id, t) ==
    IF user_id \in DOMAIN ls /\ t - ls[user_id].written < SessionLimitTtl
    THEN ls[user_id] ELSE NoLimit

\* Member.objects(Member.user_id == user_id).count()
MemberCount(user_id) == IF user_id \in DOMAIN members THEN members[user_id] ELSE 0

Max(a, b) == IF a >= b THEN a ELSE b

\* the shard count get_gateway computes from the record authorize returned
Shards(user) ==
    IF user.bot THEN Max(MemberCount(user.id) \div GuildsPerShard, 1) ELSE 1

\* GET /gateway
get_gateway(tok) ==
    LET auth == authorize(users, tok, {"id"}, {})
        user == auth.user
        found == SessionLimitGet(limits, user.id, now)
        row == IF found = NoLimit THEN NewSessionLimit(now) ELSE found
    IN  /\ IF auth.status # 200 THEN
               /\ resp' = Error("get_gateway", auth.status, auth.msg)
               /\ UNCHANGED <<limits, gateway>>
           ELSE
               /\ limits' = IF found = NoLimit THEN (user.id :> row) @@ limits ELSE limits
               /\ gateway' = [shards |-> Shards(user), total |-> row.total,
                              remaining |-> row.remaining,
                              max_concurrency |-> row.max_concurrency]
               /\ resp' = [op |-> "get_gateway", status |-> 200, msg |-> "", uid |-> user.id]
        /\ UNCHANGED <<users, settings, recoveries, tokens, events, now, nextSalt, writes,
                       revoked, reg, accepted, members, noteVars, objectifyVars>>

\* time passes, long enough for a session-limit row to expire
Elapse ==
    /\ now < SessionLimitTtl + 1
    /\ now' = now + 1
    /\ UNCHANGED <<users, settings, recoveries, tokens, events, resp, nextSalt, writes,
                   revoked, reg, accepted, gatewayVars, noteVars, objectifyVars>>

\* an account is turned into a bot account
MakeBot(u) ==
    /\ u \in DOMAIN users
    /\ ~users[u].bot
    /\ users' = [users EXCEPT ![u].bot = TRUE]
    /\ UNCHANGED <<settings, recoveries, tokens, events, resp, now, nextSalt, writes,
                   revoked, reg, accepted, gatewayVars, noteVars, objectifyVars>>

\* a user becomes a member of k more guilds
JoinGuilds(u, k) ==
    /\ u \in DOMAIN users
    /\ MemberCount(u) + k <= MaxMemberships
    /\ members' = (u :> MemberCount(u) + k) @@ members
    /\ UNCHANGED <<users, settings, recoveries, tokens, events, resp, now, nextSalt, writes,
                   revoked, reg, accepted, limits, gateway, noteVars, objectifyVars>>

\* ------------------------------------------------------------- notes
NoteContents == {"hi", "yo"}

\* a lookup that never finds a note
NotesOfNone(ns, creator_id, user_id) == {}

\* the rows Note.objects(creator_id == ..., user_id == ...) matches
NotesOf(ns, creator_id, user_id) ==
    {n \in ns : n.creator_id = creator_id /\ n.user_id = user_id}

\* Note.create
NoteCreate(ns, creator_id, user_id, content) ==
    ns \cup {[creator_id |-> creator_id, user_id |-> user_id, content |-> content]}

\* note.update(content=...)
NoteUpdate(ns, note, content) == (ns \ {note}) \cup {[note EXCEPT !.content = content]}

\* POST /users/@me/notes
create_note(tok, user_id, content) ==
    LET auth == authorize(users, tok, {"id"}, {})
        user == auth.user
        found == NotesOf(notes, user.id, user_id)
    IN  /\ IF auth.status # 200 THEN
               /\ resp' = Error("create_note", auth.status, auth.msg)
               /\ UNCHANGED notes
           ELSE IF user_id \notin DOMAIN users THEN
               /\ resp' = Error("create_note", 400, "User does not exist")
               /\ UNCHANGED notes
           ELSE
               /\ IF found = {} THEN notes' = NoteCreate(notes, user.id, user_id, content)
                  ELSE \E note \in found : notes' = NoteUpdate(notes, note, content)
               /\ resp' = [op |-> "create_note", status |-> 200, msg |-> "", uid |-> user.id]
        /\ UNCHANGED <<users, settings, recoveries, tokens, events, now, nextSalt, writes,
                       revoked, reg, accepted, gatewayVars, objectifyVars>>

\* ------------------------------------------------------------- objectify
IntValue(n) == [NoValue EXCEPT !.t = "int", !.n = n]
StrValue(bytes) == [NoValue EXCEPT !.t = "str", !.s = bytes]
List(items) == [NoValue EXCEPT !.t = "list", !.items = items]
Dict(keys, items) == [NoValue EXCEPT !.t = "dict", !.keys = keys, !.items = items]

\* str(v) of an int
str(v) == StrValue(IF v < 0 THEN <<45>> \o Digits(0 - v) ELSE Digits(v))

Permissions == <<"p", "e", "r", "m", "i", "s", "s", "i", "o", "n", "s">>

\* needle in k, for strings as sequences of characters
Contains(k, needle) ==
    \E i \in 1..(Len(k) - Len(needle) + 1) : SubSeq(k, i, i + Len(needle) - 1) = needle

\* isinstance(item, (dict, list))
IsContainer(item) == item.t \in {"dict", "list"}

RECURSIVE objectify(_)
RECURSIVE objectify_items(_)

\* a loop that appends the converted items to the list it reads
objectify_items_appending(items) ==
    items \o [j \in DOMAIN items |->
                 IF IsContainer(items[j]) THEN objectify(items[j]) ELSE items[j]]

\* the loop over a list: containers are objectified, every other item is kept
objectify_items(items) ==
    [j \in DOMAIN items |-> IF IsContainer(items[j]) THEN objectify(items[j]) ELSE items[j]]

\* what the loop over data.items() leaves under key k whose value was v
objectify_entry(k, v) ==
    IF v.t = "int" /\ (v.n > SafeIntMax \/ Contains(k, Permissions)) THEN str(v.n)
    ELSE IF v.t = "list" THEN List(objectify_items(v.items))
    ELSE v

objectify(d) ==
    IF d.t = "dict" THEN
        [d EXCEPT !.items = [i \in DOMAIN d.items |-> objectify_entry(d.keys[i], d.items[i])]]
    ELSE IF d.t = "list" THEN List(objectify_items(d.items))
    ELSE d

\* the call objectify(data)
call_objectify ==
    /\ result = NoValue
    /\ result' = objectify(data)
    /\ UNCHANGED <<users, settings, recoveries, tokens, events, resp, now, nextSalt, writes,
                   revoked, reg, accepted, gatewayVars, noteVars, data>>

\* the values objectify is applied to
Ints == {1, SafeIntMax, SafeIntMax + 1}
Leaves == {IntValue(n) : n \in Ints} \cup {StrValue(<<97>>)}
KeyId == <<"i", "d">>
Keys == {KeyId, Permissions, <<"d", "e", "n", "y", "_">> \o Permissions}

\* leaves, and lists and dicts of two leaves
Flat ==
    Leaves \cup {List(<<a, b>>) : a, b \in Leaves}
           \cup {Dict(<<KeyId, Permissions>>, <<a, b>>) : a, b \in Leaves}

\* the values of S wrapped in a list or put under a key of a dict
Nest(S) == {List(<<v>>) : v \in S} \cup {Dict(<<k>>, <<v>>) : k \in Keys, v \in S}

RECURSIVE Records(_)
Records(depth) == IF depth = 0 THEN Flat ELSE Flat \cup Nest(Records(depth - 1))

\* ------------------------------------------------------------- specifications
EditDiscriminators == {Format04(1)}

\* the bodies PATCH /users/@me is sent: every field is optional
EditRequests ==
    [email : EditEmails \cup {""}, discriminator : EditDiscriminators \cup {NoDisc},
     username : EditUsernames \cup {""}, password : EditPasswords \cup {""}]

\* requests served one at a time
Next ==
    \/ \E e \in Emails, n \in Usernames, p \in RegisterPasswords : register(e, n, p)
    \/ \E e \in Emails, p \in Passwords : login(e, p, "")
    \/ \E t \in Presentable(users, tokens) : get_me(t)
    \/ \E t \in tokens \cup {NoToken}, r \in EditRequests :
          edit_me(t, r.email, r.discriminator, r.username, r.password)

Spec == Init /\ [][Next]_vars

\* registration and login of accounts that enrol in MFA, as time passes
NextMfa ==
    \/ \E e \in Emails, p \in RegisterPasswords : register(e, "ann", p)
    \/ \E u \in DOMAIN settings, s \in Secrets, c \in Range(Codes) : EnrolMfa(u, s, c)
    \/ \E e \in Emails, p \in Passwords, c \in Range(Codes) \cup {""} : login(e, p, c)
    \/ Tick

SpecMfa == Init /\ [][NextMfa]_vars

\* registrations running concurrently, interleaved at their store calls
NextConc ==
    \/ \E p \in Procs, e \in Emails, n \in Usernames, w \in RegisterPasswords :
          RegStart(p, e, n, w)
    \/ \E p \in Procs : RegCount(p)
    \/ \E p \in Procs : RegRoll(p)
    \/ \E p \in Procs : RegCreate(p)
    \/ \E p \in Procs : RegSettings(p)

SpecConc == Init /\ [][NextConc]_vars

\* gateway information asked for as time passes and session-limit rows expire
NextLedger ==
    \/ \E e \in Emails, p \in RegisterPasswords : register(e, "ann", p)
    \/ \E t \in tokens \cup {NoToken} : get_gateway(t)
    \/ Elapse

SpecLedger == Init /\ [][NextLedger]_vars

\* gateway information of accounts, some of them bots, that join guilds
GuildJoins == {GuildsPerShard - 1, GuildsPerShard}

NextShards ==
    \/ \E e \in Emails, p \in RegisterPasswords : register(e, "ann", p)
    \/ \E t \in tokens \cup {NoToken} : get_gateway(t)
    \/ \E u \in DOMAIN users : MakeBot(u)
    \/ \E u \in DOMAIN users, k \in GuildJoins : JoinGuilds(u, k)

SpecShards == Init /\ [][NextShards]_vars

\* notes users attach to one another, and to ids no user has
NextNotes ==
    \/ \E e \in Emails, p \in RegisterPasswords : register(e, "ann", p)
    \/ \E t \in tokens \cup {NoToken}, u \in DOMAIN users \cup {Forge(users)},
          c \in NoteContents : create_note(t, u, c)

SpecNotes == Init /\ [][NextNotes]_vars

\* objectify applied to each bounded nested record: a dict or a list
InitObjectify ==
    /\ EmptyStore
    /\ data \in {v \in Records(ObjectifyDepth) : IsContainer(v)}
    /\ result = NoValue

NextObjectify == call_objectify

SpecObjectify == InitObjectify /\ [][NextObjectify]_vars

\* tokens carried through the requests of their owner and of other users, as time
\* passes; an edit changes one field, a note is one a user keeps about itself
TokenEditRequests ==
    {r \in EditRequests :
        (IF r.email # "" THEN 1 ELSE 0) + (IF r.discriminator # NoDisc THEN 1 ELSE 0)
            + (IF r.username # "" THEN 1 ELSE 0) + (IF r.password # "" THEN 1 ELSE 0) = 1}

\* the tokens of the account registered first, whose requests the token lifetime is followed through
OwnerTokens == {t \in tokens : DecodeId(t.seg) = Forge(<<>>)}
NextTokens ==
    \/ \E e \in Emails, p \in RegisterPasswords : register(e, "ann", p)
    \/ \E p \in RegisterPasswords : login("a@x", p, "")
    \/ \E t \in OwnerTokens, r \in TokenEditRequests :
          edit_me(t, r.email, r.discriminator, r.username, r.password)
    \/ \E t \in OwnerTokens : get_gateway(t)
    \/ \E t \in OwnerTokens : create_note(t, DecodeId(t.seg), "hi")
    \/ Tick

SpecTokens == Init /\ [][NextTokens]_vars

\* one registration after another, each followed store call by store call
AllocEmails == {"a@x", "b@x", "c@x"}

NextAlloc ==
    \/ \E e \in AllocEmails : RegStart(1, e, "ann", "pw1")
    \/ RegCount(1)
    \/ RegRoll(1)
    \/ RegCreate(1)
    \/ RegSettings(1)

SpecAlloc == Init /\ [][NextAlloc]_vars

\* a request inside the allocation loop keeps running
FairSpecAlloc == SpecAlloc /\ WF_vars(RegRoll(1))

\* ------------------------------------------------------------- token claims
\* the user a token was issued for: the id in the value its signature covers
IssuedFor(t) == DecodeId(t.sig.seg)

Projections == {<<{}, {}>>, <<{"id"}, {}>>, <<{}, {"password"}>>}

\* C1: for every stored user u with current password hash h, verifying the token
\* created from (u.id, h) succeeds and returns a user record whose id is u.id,
\* under each projection the handlers ask for.
TokenRoundTrip ==
    \A u \in DOMAIN users, pr \in Projections :
        LET r == verify_token(users, create_token(users[u].id, users[u].password, now),
                             pr[1], pr[2])
        IN  r.status = 200 /\ r.user.id = u

\* a handler has authorized the token of a registered user
TokenRoundTripWitness ==
    /\ resp.op = "get_me" /\ resp.status = 200
    /\ \E t \in tokens : verify_token(users, t, {}, {}).status = 200
                          /\ verify_token(users, t, {}, {}).user.id = resp.uid

\* C2: once a user's password was changed by edit_me, every token that had been
\* issued for that user before the change is rejected with 401, in every later state.
PasswordChangeRevokes ==
    \A t \in revoked : verify_token(users, t, {}, {}).status = 401

\* a token was revoked by a password change, its owner logged in again for a new
\* token, and a request carrying a bad signature was turned away
PasswordChangeRevokesWitness ==
    /\ \E t \in revoked : \E t2 \in tokens \ revoked : IssuedFor(t2) = IssuedFor(t)
    /\ resp.op = "get_me" /\ resp.status = 401
    /\ resp.msg = "Signature on Authorization is Invalid"

\* C3: verify_token returns a user only for a token whose id segment decodes to that
\* user, that was issued for that user, and that is signed with that user's current
\* password hash; a token with its id segment replaced is rejected with 401.
TokenBinding ==
    \A t \in Presentable(users, tokens) :
        LET r == verify_token(users, t, {}, {})
        IN  /\ r.status \in {200, 401}
            /\ r.status = 200 =>
                   /\ DecodeId(t.seg) = r.user.id
                   /\ IssuedFor(t) = r.user.id
                   /\ t.sig.key = users[r.user.id].password
            /\ t \notin tokens => r.status = 401

\* with two users and no password change so far, a request carrying a token whose
\* id segment names the other user was turned away for its signature
TokenBindingWitness ==
    /\ Cardinality(DOMAIN users) = 2
    /\ revoked = {}
    /\ \E t \in tokens, u \in DOMAIN users :
           /\ u # IssuedFor(t)
           /\ verify_token(users, [t EXCEPT !.seg = B64Encode(Digits(u))], {}, {}).status = 401
    /\ resp.op = "get_me" /\ resp.status = 401
    /\ resp.msg = "Signature on Authorization is Invalid"

\* ------------------------------------------------------------- uniqueness claims
\* C4: with register and edit_me served one at a time, no two distinct users hold
\* the same (username, discriminator) pair.
UniquePair ==
    \A u, v \in DOMAIN users :
        u # v => <<users[u].username, users[u].discriminator>>
                     # <<users[v].username, users[v].discriminator>>

\* two users share a username after a successful edit
UniquePairWitness ==
    /\ resp.op = "edit_me" /\ resp.status = 200
    /\ \E u, v \in DOMAIN users : u # v /\ users[u].username = users[v].username

\* C5: in concurrent registrations the existence probe and User.create are separate
\* steps and the create is unconditional: a create whose rolled pair was taken since
\* its probe still inserts, leaving two users with the same (username, discriminator).
RacingCreateDuplicates ==
    [][\A p \in Procs :
          (/\ reg[p].pc = "create"
           /\ reg'[p].pc = "settings"
           /\ ~is_available(users, reg[p].username, reg[p].disc)) => ~UniquePair']_vars

\* both registrations have returned and two users hold the same pair
RacingCreateDuplicatesWitness ==
    /\ \A p \in Procs : reg[p].pc = "idle"
    /\ resp.op = "register" /\ resp.status = 201
    /\ ~UniquePair

\* C6: a register for a username that TooUsedLimit or more users hold creates no user
\* and, its email being free, answers UsernameSaturated.
SaturatedUsernameRejected ==
    [][\A e \in Emails, n \in Usernames, p \in RegisterPasswords :
          (/\ UsedCount(users, n) >= TooUsedLimit
           /\ ~EmailUsed(users, e)
           /\ register(e, n, p))
          => (/\ users' = users
              /\ resp' = Error("register", 400, "Too many people are using this username."))]_vars

\* C7: no two distinct users have the same email (register rejects a held email, and
\* no sequence of register and edit_me makes two users share one).
UniqueEmail ==
    \A u, v \in DOMAIN users : u # v => users[u].email # users[v].email

\* ------------------------------------------------------------- login claims
\* the user of an email whose password verifies, if any
Credentialed(email, password) ==
    {u \in DOMAIN users : users[u].email = email /\ hasher_verify(users[u].password, password)}

\* C8: for an MFA account and a login with correct email and password and a non-empty
\* code, the login succeeds iff the code is a current recovery code or the live TOTP
\* code, and fails with MfaInvalid otherwise.
MfaAcceptsRecoveryOrTotp ==
    [][\A e \in Emails, p \in Passwords, c \in Range(Codes) :
          \A u \in Credentialed(e, p) :
              (settings[u].mfa_enabled /\ login(e, p, c)) =>
                  IF c \in get_recoveries(u) \/ c = Totp(settings[u].mfa_code, now)
                  THEN /\ resp' = [op |-> "login", status |-> 200, msg |-> "", uid |-> u]
                       /\ create_token(u, users[u].password, now) \in tokens'
                  ELSE /\ resp' = Error("login", 403, "mfa code is invalid.")
                       /\ tokens' = tokens]_vars

\* C9: a login whose email no user has and a login whose password does not verify get
\* the same response, whatever the MFA state and code; an MFA error is given only when
\* the email exists and the password verified.
LoginNoEmailOracle ==
    \A e \in Emails, p \in Passwords, c \in Range(Codes) \cup {""} :
        \A r \in login_responses(e, p, c) :
            /\ Credentialed(e, p) = {} => r = Error("login", 400, "Invalid email or password")
            /\ r.status = 403 => Credentialed(e, p) # {}

\* a login was refused for its credentials while an account with MFA enabled exists
\* and another email is held by no user
LoginNoEmailOracleWitness ==
    /\ resp = Error("login", 400, "Invalid email or password")
    /\ \E u \in DOMAIN users : settings[u].mfa_enabled
    /\ \E e \in Emails : ~EmailUsed(users, e)

\* ------------------------------------------------------------- edit claims
\* C10: an edit_me that fails leaves the store as it was and dispatches no event.
FailedEditChangesNothing ==
    [][(resp'.op = "edit_me" /\ resp'.status # 200)
          => (/\ users' = users
              /\ settings' = settings
              /\ recoveries' = recoveries
              /\ events' = events)]_vars

\* an edit was refused for its discriminator or username after an earlier edit had
\* changed a password
FailedEditChangesNothingWitness ==
    /\ resp = Error("edit_me", 400, "Discriminator is already taken")
    /\ Len(events) > 0

\* C11: a step appends an event exactly when it is a successful edit_me that stores a
\* new password hash (one that supplied a password), and then it appends exactly one
\* USER_INTERNAL_DISCONNECT event of type password-change for the editing user; an
\* edit_me without a password appends none; the events dispatched so far are as many as
\* the password changes applied (the hashes drawn that were not drawn by a registration).
PasswordChangeDispatchesOnce ==
    [][LET changed == {u \in DOMAIN users : users'[u].password # users[u].password}
       IN  /\ Cardinality(changed) <= 1
           /\ \A u \in changed :
                  /\ resp' = [op |-> "edit_me", status |-> 200, msg |-> "", uid |-> u]
                  /\ events' = Append(events, DisconnectEvent(u))
           /\ changed = {} => events' = events
           /\ Len(events') = (nextSalt' - 1) - Cardinality(DOMAIN users')]_vars

\* one account has been edited twice, once with a password and once without
PasswordChangeDispatchesOnceWitness ==
    /\ resp.op = "edit_me" /\ resp.status = 200
    /\ Cardinality(DOMAIN users) = 1
    /\ writes = 3
    /\ Len(events) = 1
    /\ events[1] = DisconnectEvent(resp.uid)

\* ------------------------------------------------------------- registration atomicity
\* C12: in no state, the states between the store calls of concurrent registrations
\* included, does a user exist without a Settings row, and the Settings row of a
\* registered user has mfa_enabled = false.
UserAndSettingsAtomic ==
    \A u \in DOMAIN users : u \in DOMAIN settings /\ ~settings[u].mfa_enabled

\* ------------------------------------------------------------- gateway claims
\* C13: a get_gateway of a user with no live session-limit row creates the row with
\* the defaults and returns total = remaining = 1000 (max_concurrency 16); a
\* get_gateway made before the row's time to live is over returns the values of that
\* row and writes nothing; once the time to live is over the row is absent and the
\* next get_gateway creates it anew with the defaults.
SessionLimitRenewal ==
    [][\A t \in tokens :
          (get_gateway(t) /\ resp'.status = 200) =>
              LET u == resp'.uid
              IN  IF u \in DOMAIN limits /\ now - limits[u].written < SessionLimitTtl
                  THEN /\ limits' = limits
                       /\ gateway'.total = limits[u].total
                       /\ gateway'.remaining = limits[u].remaining
                       /\ gateway'.total = 1000 /\ gateway'.remaining = 1000
                  ELSE /\ SessionLimitGet(limits, u, now) = NoLimit
                       /\ limits'[u] = [total |-> 1000, remaining |-> 1000,
                                        max_concurrency |-> 16, written |-> now]
                       /\ \A v \in DOMAIN limits \ {u} : limits'[v] = limits[v]
                       /\ gateway'.total = 1000 /\ gateway'.remaining = 1000
                       /\ gateway'.max_concurrency = 16]_vars

\* the row a get_gateway answered from has outlived its time to live
SessionLimitRenewalWitness ==
    /\ resp.op = "get_gateway" /\ resp.status = 200
    /\ resp.uid \in DOMAIN limits
    /\ now - limits[resp.uid].written >= SessionLimitTtl
    /\ gateway.total = 1000 /\ gateway.remaining = 1000

\* C14: get_gateway returns shards = 1 for a non-bot account and, for a bot account
\* with n guild memberships, shards = max(floor(n / 1000), 1).
ShardsFollowMemberships ==
    [][\A t \in tokens :
          (get_gateway(t) /\ resp'.status = 200) =>
              gateway'.shards = IF users[resp'.uid].bot
                                THEN Max(MemberCount(resp'.uid) \div 1000, 1)
                                ELSE 1]_vars

\* ------------------------------------------------------------- objectify claims
\* C15: objectify is idempotent: objectify(objectify(x)) = objectify(x) for every
\* bounded nested value x of dicts, lists, integers and strings.
ObjectifyIdempotent ==
    /\ objectify(objectify(data)) = objectify(data)
    /\ result # NoValue => objectify(result) = result

\* objectify has returned a dict in which it replaced something
ObjectifyIdempotentWitness ==
    /\ result # NoValue
    /\ result # data
    /\ result.t = "dict"

RECURSIVE Normalized(_, _)
\* v with every integer above SafeIntMax, and every integer that is the value of a key
\* containing 'permissions', as its decimal string, at every depth
Normalized(v, underPermissions) ==
    IF v.t = "int" THEN
        IF v.n > SafeIntMax \/ underPermissions THEN str(v.n) ELSE v
    ELSE IF v.t = "list" THEN
        List([j \in DOMAIN v.items |-> Normalized(v.items[j], FALSE)])
    ELSE IF v.t = "dict" THEN
        [v EXCEPT !.items = [i \in DOMAIN v.items |->
                                Normalized(v.items[i], Contains(v.keys[i], Permissions))]]
    ELSE v

\* C16: after one pass of objectify every integer above the bound and every integer
\* under a key containing 'permissions' is its decimal string, at every nesting depth
\* (in a dict that is the value of a dict's key, in dicts that are list elements, in
\* nested lists), and every other value and the structure are unchanged.
ObjectifyConvertsAtEveryDepth ==
    result # NoValue => result = Normalized(data, FALSE)

\* ------------------------------------------------------------- token failure claims
\* C17: a token with an undecodable id segment, a token whose id no user has and a
\* token whose signature does not verify are rejected with the same status and the
\* same message.
TokenFailuresIndistinguishable ==
    \A t1, t2 \in Presentable(users, tokens) \ {NoToken} :
        LET r1 == verify_token(users, t1, {}, {})
            r2 == verify_token(users, t2, {}, {})
        IN  (r1.status # 200 /\ r2.status # 200) => (r1.status = r2.status /\ r1.msg = r2.msg)

\* ------------------------------------------------------------- MFA login claims
\* every login accepted on a recovery code would be accepted again now
AcceptedAgain ==
    \A a \in accepted :
        /\ a.code \in get_recoveries(a.uid)
        /\ login_check(a.uid, a.password, a.code).status = 200

\* C18: a login, successful or failed, leaves users, settings and recovery codes as they
\* were, and a recovery code a login accepted is still a recovery code afterwards and is
\* accepted again by every later login with the same inputs.
LoginLeavesStore ==
    [][/\ \A e \in Emails, p \in Passwords, c \in Range(Codes) \cup {""} :
              login(e, p, c) => (/\ users' = users
                                 /\ settings' = settings
                                 /\ recoveries' = recoveries)
       /\ AcceptedAgain']_vars

\* a step of SpecMfa that is a login: it leaves a login's response, and neither
\* enrolment (which writes settings) nor the clock (which writes now) took it
LoginStep == resp'.op = "login" /\ settings' = settings /\ now' = now

\* C19: a login with correct email and password succeeds and issues a token for an
\* account with MFA disabled, whatever the code, none included; for an account with MFA
\* enabled and no code it fails with MfaRequired and issues no token (a login issues a
\* token exactly when it answers 200).
MfaGate ==
    /\ [](\A e \in Emails, p \in Passwords, c \in Range(Codes) \cup {""} :
             \A u \in Credentialed(e, p) :
                 /\ ~settings[u].mfa_enabled =>
                        login_responses(e, p, c) =
                            {[op |-> "login", status |-> 200, msg |-> "", uid |-> u]}
                 /\ (settings[u].mfa_enabled /\ c = "") =>
                        login_responses(e, p, c) =
                            {Error("login", 403,
                                   "mfa_code is a required field for users with mfa.")})
    /\ [][LoginStep =>
              IF resp'.status = 200
              THEN create_token(resp'.uid, users[resp'.uid].password, now) \in tokens'
              ELSE tokens' = tokens]_vars

\* a login without a code was refused for an MFA account while another account, with
\* MFA disabled, holds a token issued after its registration
MfaGateWitness ==
    /\ resp = Error("login", 403, "mfa_code is a required field for users with mfa.")
    /\ \E u \in DOMAIN users :
           /\ ~settings[u].mfa_enabled
           /\ Cardinality({t \in tokens : IssuedFor(t) = u}) > 1

\* ------------------------------------------------------------- note claims
\* C20: a successful create_note leaves exactly one note for its (creator, target)
\* pair, with the content it was given, and leaves the notes of every other pair as
\* they were; no pair ever has two notes; a create_note that fails, as the one whose
\* target user does not exist does, leaves the notes as they were.
OneNotePerPair ==
    [][\A t \in tokens \cup {NoToken}, target \in DOMAIN users \cup {Forge(users)},
         c \in NoteContents :
          create_note(t, target, c) =>
              /\ target \notin DOMAIN users => resp'.status # 200
              /\ IF resp'.status = 200
                 THEN /\ NotesOf(notes', resp'.uid, target) =
                             {[creator_id |-> resp'.uid, user_id |-> target, content |-> c]}
                      /\ notes' \ NotesOf(notes', resp'.uid, target)
                             = notes \ NotesOf(notes, resp'.uid, target)
                      /\ \A n1, n2 \in notes' :
                             (n1.creator_id = n2.creator_id /\ n1.user_id = n2.user_id)
                                 => n1 = n2
                 ELSE notes' = notes]_vars

\* a create_note for an id no user has was refused while notes of two pairs exist
OneNotePerPairWitness ==
    /\ resp = Error("create_note", 400, "User does not exist")
    /\ Cardinality(notes) >= 2
    /\ "yo" \in {n.content : n \in notes}

\* ------------------------------------------------------------- edit availability claims
\* the (username, discriminator) pair user u holds once the fields of request r are merged
FinalPair(u, r) ==
    <<IF r.username # "" THEN r.username ELSE users[u].username,
      IF r.discriminator # NoDisc THEN r.discriminator ELSE users[u].discriminator>>

\* a user other than u holds the pair
HeldByAnother(u, pair) ==
    \E v \in DOMAIN users \ {u} : <<users[v].username, users[v].discriminator>> = pair

\* C21: an authorized edit_me is rejected with DiscriminatorTaken if and only if the
\* (username, discriminator) pair its user would hold after the edit is held by a
\* different user; a taken (old username, new discriminator) pair alone, or a field
\* re-supplied with the user's own current value, does not reject it.
DiscriminatorTakenIffHeld ==
    [][\A t \in tokens, r \in EditRequests :
          (/\ authorize(users, t, {}, {}).status = 200
           /\ edit_me(t, r.email, r.discriminator, r.username, r.password))
          => LET u == authorize(users, t, {}, {}).user.id
             IN  (resp' = Error("edit_me", 400, "Discriminator is already taken"))
                     <=> HeldByAnother(u, FinalPair(u, r))]_vars

\* ------------------------------------------------------------- token lifetime claims
\* the user a token authorizes as, -1 when it is rejected
TokenOwner(t) ==
    LET r == verify_token(users, t, {}, {})
    IN  IF r.status = 200 THEN r.user.id ELSE -1

\* C22: every token issued so far that was not outstanding at a password change of its
\* owner verifies, and as its owner, in every state: after logins, gateway and note
\* requests, requests of other users, the owner's edits of email, username and
\* discriminator, and the passing of time.
TokenSurvives ==
    \A t \in tokens \ revoked : TokenOwner(t) = IssuedFor(t)

\* a token issued in an earlier clock tick verifies for its owner, who has since been
\* renamed and whose note was just stored, while a second user is registered
TokenSurvivesWitness ==
    /\ resp.op = "create_note" /\ resp.status = 200
    /\ Cardinality(DOMAIN users) = 2
    /\ \E t \in tokens \ revoked :
           /\ t.ts < now
           /\ TokenOwner(t) = resp.uid
           /\ users[resp.uid].username = "bob"

\* ------------------------------------------------------------- allocation claims
UsernameSaturated == Error("register", 400, "Too many people are using this username.")

\* a step of the registration in which it fails with UsernameSaturated
AllocFails ==
    /\ reg[1].pc \in {"count", "roll"}
    /\ reg'[1].pc = "idle"
    /\ resp' = UsernameSaturated

\* what one step of the registration does to the allocation
AllocStep ==
    /\ (reg[1].pc = "roll" /\ reg'[1].pc = "create")
          => /\ reg[1].attempt < RollAttempts
             /\ reg'[1].disc \in roll_discriminator
             /\ is_available(users, reg[1].username, reg'[1].disc)
             /\ Len(reg'[1].disc) = 4
             /\ \A i \in 1..4 : reg'[1].disc[i] \in 0..9
    /\ (reg[1].pc = "roll" /\ reg'[1].pc = "roll")
          => /\ reg'[1].attempt = reg[1].attempt + 1
             /\ \E d \in roll_discriminator : ~is_available(users, reg[1].username, d)
    /\ (/\ reg[1].pc = "roll" /\ reg[1].attempt < RollAttempts
        /\ \A d \in roll_discriminator : is_available(users, reg[1].username, d))
          => reg'[1].pc = "create"
    /\ AllocFails
          <=> \/ reg[1].pc = "count" /\ is_too_used(users, reg[1].username)
              \/ reg[1].pc = "roll" /\ reg[1].attempt = RollAttempts
    /\ AllocFails => users' = users /\ settings' = settings

\* C23: the allocation loop ends after at most RollAttempts probes: it never counts more
\* than RollAttempts collisions and always leaves the loop; a probe that finds no user
\* returns the rolled discriminator, four digits long; and the registration fails with
\* UsernameSaturated, creating no user, exactly when the saturation check rejects or
\* RollAttempts rolls have collided.
AllocationTerminates ==
    /\ [](reg[1].attempt <= RollAttempts)
    /\ [][AllocStep]_vars
    /\ (reg[1].pc = "roll") ~> (reg[1].pc # "roll")

\* a registration has failed with UsernameSaturated although the saturation check passes:
\* every one of its rolls collided
AllocationTerminatesWitness ==
    /\ resp = UsernameSaturated
    /\ reg[1].pc = "idle"
    /\ users # <<>>
    /\ ~is_too_used(users, "ann")

====
